---- MODULE Spec2Model ----
(***************************************************************************)
(* A model of the dylib crate (src/src/lib.rs): the DynamicLibrary handle  *)
(* (open / symbol / drop), the POSIX and the Windows `dl` backends, and    *)
(* the search-path helpers (search_path / prepend_search_path /           *)
(* create_path).                                                          *)
(*                                                                         *)
(* Strings (OsStr, &str, C strings) are sequences of bytes; a byte is a   *)
(* token ("a", "xFF", NUL, ...).  Pointers are integers, NULL is 0, native  *)
(* handles are 1..MaxHandles, symbol addresses are >= 100.                 *)
(***************************************************************************)
EXTENDS Integers, Sequences, FiniteSets, TLC

\* ------------------------------------------------------------------ bounds
MaxHandles == 2
MaxPathLen == 2
MaxEnvLen == 5
MaxFailed == 2
MaxElemLen == 1
MaxListLen == 3

\* ------------------------------------------------------------------ values
NULL == 0

Unit == "unit"

NUL == "NUL"

\* the bytes of search-path entries; ":" is the separator of the non-Windows builds
PathByte == {"a", "b", ":"}

RECURSIVE SeqsUpTo(_, _)
SeqsUpTo(S, n) ==
    IF n = 0 THEN {<<>>}
    ELSE LET shorter == SeqsUpTo(S, n - 1)
         IN shorter \cup {Append(s, c) : s \in {t \in shorter : Len(t) = n - 1}, c \in S}

Range(s) == {s[i] : i \in 1..Len(s)}

\* &Path / &OsStr arguments of open, any bytes: the module "a", a path that is
\* no module, one that is not UTF-8, and paths with an interior or a final NUL
Paths == {<<"a">>, <<"a", "a">>, <<"xFF">>, <<"a", NUL, "a">>, <<"a", NUL>>}

\* &str arguments of symbol, valid UTF-8: the exported "a" and "b", a name that
\* is not exported, and names with an interior or a final NUL
Names == {<<"a">>, <<"b">>, <<"a", "b">>, <<"a", NUL, "b">>, <<"a", NUL>>}

None == [some |-> FALSE, path |-> <<>>]

Some(p) == [some |-> TRUE, path |-> p]

\* the absence of a pending loader error (dlerror() returning a null pointer)
NoError == [src |-> "none", text |-> <<>>]

VARIABLES
    dlerr,        \* POSIX loader: the sticky last error, NoError when none is pending
    loaderClears, \* POSIX loader flavour: TRUE when every dl* call resets the last error on entry
    loaded,       \* POSIX loader: the native handles currently open
    nextHandle,   \* POSIX loader: number of handles handed out so far
    libs,         \* the handle field of every live DynamicLibrary value
    everWrapped,  \* history: every handle ever wrapped in a DynamicLibrary
    closeCalls,   \* history: handle -> number of dlclose calls made on it
    failedLookups, \* history: live handle -> failed symbol calls made on it (counted up to MaxFailed)
    last,         \* the last library operation: arguments, native calls, result
    env,          \* the search-path environment variable
    lastPath,     \* the last search-path operation
    lastJoin,     \* the create_path call: its argument, and its result once called
    threadMode,   \* Windows: the calling thread's error mode
    processMode,  \* Windows: the process error mode
    threadModeSupported, \* Windows: whether SetThreadErrorMode exists (Windows >= 7)
    lastError,    \* Windows: the calling thread's last-error code
    winLast       \* Windows: the last open call

posixVars == <<dlerr, loaderClears, loaded, nextHandle, libs, everWrapped, closeCalls,
               failedLookups, last>>

pathVars == <<env, lastPath, lastJoin>>

winVars == <<threadMode, processMode, threadModeSupported, lastError, winLast>>

vars == <<posixVars, pathVars, winVars>>

\* ------------------------------------------------- std::ffi::CString, CStr
HasNul(bytes) == \E i \in 1..Len(bytes) : bytes[i] = NUL

\* CString::new: fails on an interior NUL byte, otherwise appends the terminator
CStringNew(bytes) ==
    IF HasNul(bytes)
    THEN [ok |-> FALSE, bytes |-> <<>>]
    ELSE [ok |-> TRUE, bytes |-> Append(bytes, NUL)]

\* what native code reads through a *const c_char: the bytes before the first NUL
RECURSIVE CStrRead(_)
CStrRead(bytes) ==
    IF bytes = <<>> \/ Head(bytes) = NUL THEN <<>>
    ELSE <<Head(bytes)>> \o CStrRead(Tail(bytes))

\* str::from_utf8 on the bytes of a loader message
ValidUtf8(bytes) == "xFF" \notin Range(bytes)

\* --------------------------------------------- the POSIX loader (extern "C")
\* The loader state a native call reads and writes.
LoaderState == [err |-> dlerr, loaded |-> loaded, next |-> nextHandle]

\* Loaders differ in whether a dl* call resets the last error on entry; POSIX
\* only says the error stays until dlerror() reports it.
OnEntry(err) == IF loaderClears THEN NoError ELSE err

\* The modules the loader can find: the running program (NULL name) and "a".
Loadable(name) == ~name.some \/ name.path = <<"a">>

\* dlopen(name, LAZY): a fresh non-null handle, or NULL with the last error set.
\* Every successful call gets a handle of its own: the reference it took on the module.
\* `succeed` is the loader's own choice (a loadable module can still fail to load).
dlopen(L, name, succeed) ==
    IF succeed /\ Loadable(name) /\ L.next < MaxHandles
    THEN [ret |-> L.next + 1,
          L |-> [err |-> OnEntry(L.err), loaded |-> L.loaded \cup {L.next + 1}, next |-> L.next + 1],
          call |-> [fn |-> "dlopen", h |-> NULL, arg |-> name, ret |-> L.next + 1, raised |-> FALSE]]
    ELSE [ret |-> NULL,
          L |-> [L EXCEPT !.err = [src |-> "dlopen", text |-> name.path]],
          call |-> [fn |-> "dlopen", h |-> NULL, arg |-> name, ret |-> NULL, raised |-> TRUE]]

\* The symbols every module exports: "a" at a non-null address, "b" whose value is null.
Exported(name) == name \in {<<"a">>, <<"b">>}

SymbolValue(name) == IF name = <<"a">> THEN 100 ELSE NULL

\* dlsym(handle, symbol): the symbol's value, or NULL with the last error set.
dlsym(L, handle, name) ==
    IF Exported(name)
    THEN [ret |-> SymbolValue(name),
          L |-> [L EXCEPT !.err = OnEntry(L.err)],
          call |-> [fn |-> "dlsym", h |-> handle, arg |-> Some(name),
                    ret |-> SymbolValue(name), raised |-> FALSE]]
    ELSE [ret |-> NULL,
          L |-> [L EXCEPT !.err = [src |-> "dlsym", text |-> name]],
          call |-> [fn |-> "dlsym", h |-> handle, arg |-> Some(name), ret |-> NULL, raised |-> TRUE]]

\* dlclose(handle): 0 and the handle is gone, or non-zero with the last error set.
dlclose(L, handle, succeed) ==
    IF succeed
    THEN [ret |-> 0,
          L |-> [L EXCEPT !.err = OnEntry(L.err), !.loaded = L.loaded \ {handle}],
          call |-> [fn |-> "dlclose", h |-> handle, arg |-> None, ret |-> 0, raised |-> FALSE]]
    ELSE [ret |-> -1,
          L |-> [L EXCEPT !.err = [src |-> "dlclose", text |-> <<>>]],
          call |-> [fn |-> "dlclose", h |-> handle, arg |-> None, ret |-> -1, raised |-> TRUE]]

\* dlerror(): returns the pending error (a null pointer when none) and clears it.
dlerror(L) ==
    [ret |-> L.err,
     L |-> [L EXCEPT !.err = NoError],
     call |-> [fn |-> "dlerror", h |-> NULL, arg |-> None, ret |-> L.err, raised |-> FALSE]]

\* ------------------------------------------------------- mod dl (POSIX)
\* The execution of a closure: whether it panicked (and the message), what it
\* returned, the loader state it left, the native calls it made.
Ran(n) == [panic |-> FALSE, msg |-> NoError, ret |-> n.ret, L |-> n.L, calls |-> <<n.call>>]

open_external(L, filename, succeed) ==
    LET s == CStringNew(filename)
    IN IF ~s.ok
       THEN [panic |-> TRUE, msg |-> [src |-> "open_external", text |-> filename],
             ret |-> NULL, L |-> L, calls |-> <<>>]
       ELSE Ran(dlopen(L, Some(CStrRead(s.bytes)), succeed))

open_internal(L, succeed) == Ran(dlopen(L, None, succeed))

\* A check_for_errors_in that trusts a non-null result and asks dlerror() only
\* after a null one.
check_for_errors_in_byret(x) ==
    IF x.panic
    THEN [kind |-> "Panic", value |-> x.msg, L |-> x.L, calls |-> x.calls]
    ELSE IF x.ret # NULL
    THEN [kind |-> "Ok", value |-> x.ret, L |-> x.L, calls |-> x.calls]
    ELSE LET q == dlerror(x.L)
         IN IF q.ret = NoError
            THEN [kind |-> "Ok", value |-> x.ret, L |-> q.L, calls |-> x.calls \o <<q.call>>]
            ELSE [kind |-> "Err", value |-> q.ret, L |-> q.L, calls |-> x.calls \o <<q.call>>]

\* check_for_errors_in(f), given the execution x of `let result = f();`.  A panic
\* of f unwinds through it; otherwise dlerror() is asked once and decides.
check_for_errors_in(x) ==
    IF x.panic
    THEN [kind |-> "Panic", value |-> x.msg, L |-> x.L, calls |-> x.calls]
    ELSE LET q == dlerror(x.L)
             last_error == q.ret
         IN IF last_error = NoError
            THEN [kind |-> "Ok", value |-> x.ret, L |-> q.L, calls |-> x.calls \o <<q.call>>]
            ELSE IF ~ValidUtf8(last_error.text)
            THEN [kind |-> "Err", value |-> [src |-> "from_utf8", text |-> <<>>],
                  L |-> q.L, calls |-> x.calls \o <<q.call>>]
            ELSE [kind |-> "Err", value |-> last_error, L |-> q.L, calls |-> x.calls \o <<q.call>>]

dl_open(L, filename, succeed) ==
    check_for_errors_in(IF filename.some
                        THEN open_external(L, filename.path, succeed)
                        ELSE open_internal(L, succeed))

dl_symbol(L, handle, symbol) == Ran(dlsym(L, handle, CStrRead(symbol)))

dl_close(L, handle, succeed) == [Ran(dlclose(L, handle, succeed)) EXCEPT !.ret = Unit]

\* ------------------------------------------------------ DynamicLibrary
\* A DynamicLibrary::open that builds the DynamicLibrary whatever dl::open returned.
DynamicLibraryOpen_always(L, filename, succeed) ==
    LET maybe_library == dl_open(L, filename, succeed)
    IN IF maybe_library.kind = "Panic" THEN maybe_library
       ELSE [maybe_library EXCEPT !.kind = "Ok",
                                  !.value = [handle |-> maybe_library.calls[1].ret]]

\* DynamicLibrary::open: Ok carries the DynamicLibrary { handle } it built.
DynamicLibraryOpen(L, filename, succeed) ==
    LET maybe_library == dl_open(L, filename, succeed)
    IN IF maybe_library.kind = "Ok"
       THEN [maybe_library EXCEPT !.value = [handle |-> maybe_library.value]]
       ELSE maybe_library

\* A DynamicLibrary::symbol that takes a null return of dlsym for the failure
\* and never asks dlerror().
DynamicLibrarySymbol_byret(L, handle, symbol) ==
    LET raw_string == CStringNew(symbol)
        x == dl_symbol(L, handle, raw_string.bytes)
    IN IF ~raw_string.ok
       THEN [kind |-> "Err", value |-> [src |-> "symbol", text |-> symbol], L |-> L, calls |-> <<>>]
       ELSE IF x.ret = NULL
       THEN [kind |-> "Err", value |-> [src |-> "symbol", text |-> symbol], L |-> x.L, calls |-> x.calls]
       ELSE [kind |-> "Ok", value |-> x.ret, L |-> x.L, calls |-> x.calls]

\* DynamicLibrary::symbol
DynamicLibrarySymbol(L, handle, symbol) ==
    LET raw_string == CStringNew(symbol)
    IN IF ~raw_string.ok
       THEN [kind |-> "Err", value |-> [src |-> "symbol", text |-> symbol], L |-> L, calls |-> <<>>]
       ELSE check_for_errors_in(dl_symbol(L, handle, raw_string.bytes))

\* A destructor that calls dl::close outside check_for_errors_in.
DynamicLibraryDrop_unchecked(L, handle, succeed) ==
    LET x == dl_close(L, handle, succeed)
    IN [kind |-> "Ok", value |-> x.ret, L |-> x.L, calls |-> x.calls]

\* impl Drop for DynamicLibrary
DynamicLibraryDrop(L, handle, succeed) ==
    LET r == check_for_errors_in(dl_close(L, handle, succeed))
    IN IF r.kind = "Err" THEN [r EXCEPT !.kind = "Panic"] ELSE r

\* ------------------------------------------------------------- actions
NoOp == [op |-> "none", arg |-> None, handle |-> NULL, kind |-> "none", value |-> NULL,
         calls |-> <<>>, errBefore |-> NoError]

SetLoader(L) ==
    /\ dlerr' = L.err
    /\ loaded' = L.loaded
    /\ nextHandle' = L.next

\* the dlclose calls among `calls` made on handle h
Closes(calls, h) == Cardinality({i \in 1..Len(calls) : calls[i].fn = "dlclose" /\ calls[i].h = h})

CountCloses(calls) ==
    closeCalls' = [h \in DOMAIN closeCalls |-> closeCalls[h] + Closes(calls, h)]

\* let lib = DynamicLibrary::open(filename)
Open(filename, succeed) ==
    LET r == DynamicLibraryOpen(LoaderState, filename, succeed)
    IN /\ SetLoader(r.L)
       /\ libs' = IF r.kind = "Ok" THEN libs \cup {r.value.handle} ELSE libs
       /\ everWrapped' = IF r.kind = "Ok" THEN everWrapped \cup {r.value.handle} ELSE everWrapped
       /\ CountCloses(r.calls)
       /\ last' = [op |-> "open", arg |-> filename, handle |-> NULL, kind |-> r.kind,
                   value |-> r.value, calls |-> r.calls, errBefore |-> dlerr]
       /\ UNCHANGED <<loaderClears, failedLookups, pathVars, winVars>>

\* lib.symbol(name) on a live DynamicLibrary
Symbol(handle, name) ==
    LET r == DynamicLibrarySymbol(LoaderState, handle, name)
    IN /\ handle \in libs
       /\ SetLoader(r.L)
       /\ CountCloses(r.calls)
       /\ failedLookups' = IF r.kind = "Err" /\ failedLookups[handle] < MaxFailed
                           THEN [failedLookups EXCEPT ![handle] = @ + 1]
                           ELSE failedLookups
       /\ last' = [op |-> "symbol", arg |-> Some(name), handle |-> handle, kind |-> r.kind,
                   value |-> r.value, calls |-> r.calls, errBefore |-> dlerr]
       /\ UNCHANGED <<loaderClears, libs, everWrapped, pathVars, winVars>>

\* drop(lib): the value is gone whether or not the destructor panics
DropLib(handle, succeed) ==
    LET r == DynamicLibraryDrop(LoaderState, handle, succeed)
    IN /\ handle \in libs
       /\ SetLoader(r.L)
       /\ libs' = libs \ {handle}
       /\ CountCloses(r.calls)
       /\ last' = [op |-> "drop", arg |-> None, handle |-> handle, kind |-> r.kind,
                   value |-> r.value, calls |-> r.calls, errBefore |-> dlerr]
       /\ failedLookups' = [failedLookups EXCEPT ![handle] = 0]
       /\ UNCHANGED <<loaderClears, everWrapped, pathVars, winVars>>

\* Other code of the process fails a dl* call and does not ask dlerror().
ForeignLoaderError ==
    /\ dlerr' = [src |-> "foreign", text |-> <<>>]
    /\ UNCHANGED <<loaderClears, loaded, nextHandle, libs, everWrapped, closeCalls,
                   failedLookups, last, pathVars, winVars>>

OpenStep == \E filename \in {None} \cup {Some(p) : p \in Paths}, succeed \in BOOLEAN :
                Open(filename, succeed)

SymbolStep == \E handle \in libs, name \in Names : Symbol(handle, name)

DropStep == \E handle \in libs, succeed \in BOOLEAN : DropLib(handle, succeed)

InitPosix ==
    /\ dlerr = NoError
    /\ loaded = {}
    /\ nextHandle = 0
    /\ libs = {}
    /\ everWrapped = {}
    /\ closeCalls = [h \in NULL..MaxHandles |-> 0]
    /\ failedLookups = [h \in NULL..MaxHandles |-> 0]
    /\ last = NoOp

\* ------------------------------------------------- search-path helpers
\* DynamicLibrary::separator on the non-Windows builds
separator == <<":">>

\* env::split_paths on Unix: split the bytes at every ':'; the empty string
\* yields one empty path, and empty pieces are kept.
RECURSIVE split_paths(_)
split_paths(var) ==
    LET cut == {i \in 1..Len(var) : var[i] = separator[1]}
    IN IF cut = {} THEN <<var>>
       ELSE LET i == CHOOSE k \in cut : \A j \in cut : k <= j
            IN <<SubSeq(var, 1, i - 1)>> \o split_paths(SubSeq(var, i + 1, Len(var)))

\* env::var_os(envvar()) followed by the match of search_path
search_path(e) == IF e.set THEN split_paths(e.value) ELSE <<>>

\* the loop of create_path, at 1-based position i with `newvar` built so far
RECURSIVE create_path_loop(_, _, _)
create_path_loop(path, i, newvar) ==
    IF i > Len(path) THEN newvar
    ELSE create_path_loop(path, i + 1,
                          (IF i > 1 THEN newvar \o separator ELSE newvar) \o path[i])

\* A create_path whose loop pushes the separator before every path, the first included.
RECURSIVE create_path_sep_always(_)
create_path_sep_always(path) ==
    IF path = <<>> THEN <<>>
    ELSE create_path_sep_always(SubSeq(path, 1, Len(path) - 1)) \o separator \o path[Len(path)]

create_path(path) == create_path_loop(path, 1, <<>>)

\* env::set_var(envvar(), value): panics when the value holds a NUL byte
set_var(e, value) ==
    IF HasNul(value)
    THEN [panic |-> TRUE, env |-> e]
    ELSE [panic |-> FALSE, env |-> [set |-> TRUE, value |-> value]]

\* A prepend_search_path that pushes the path at the end of the list.
prepend_search_path_push(e, path) ==
    set_var(e, create_path(Append(search_path(e), path)))

\* DynamicLibrary::prepend_search_path
prepend_search_path(e, path) ==
    LET search_path0 == search_path(e)
        search_path1 == <<path>> \o search_path0
    IN set_var(e, create_path(search_path1))

Unset == [set |-> FALSE, value |-> <<>>]

\* what the variable can hold when the process starts: unset, or any NUL-free string
EnvValues == {Unset} \cup {[set |-> TRUE, value |-> v] : v \in SeqsUpTo(PathByte, MaxEnvLen)}

\* the directories handed to prepend_search_path: any bytes of a &Path
Dirs == SeqsUpTo({"a", separator[1], NUL}, MaxPathLen)

NoPathOp == [op |-> "none", newDir |-> <<>>, before |-> <<>>, panic |-> FALSE, result |-> <<>>]

\* DynamicLibrary::prepend_search_path(newDir)
PrependSearchPath(newDir) ==
    LET r == prepend_search_path(env, newDir)
    IN /\ Len(r.env.value) <= MaxEnvLen
       /\ env' = r.env
       /\ lastPath' = [op |-> "prepend", newDir |-> newDir, before |-> search_path(env),
                       panic |-> r.panic, result |-> <<>>]
       /\ UNCHANGED <<lastJoin, posixVars, winVars>>

\* let l = DynamicLibrary::search_path()
SearchPath ==
    /\ lastPath' = [op |-> "search_path", newDir |-> <<>>, before |-> <<>>, panic |-> FALSE,
                    result |-> search_path(env)]
    /\ UNCHANGED <<env, lastJoin, posixVars, winVars>>

PrependStep == \E newDir \in Dirs : PrependSearchPath(newDir)

\* the lists handed to create_path
Elems == SeqsUpTo(PathByte, MaxElemLen)

Lists == SeqsUpTo(Elems, MaxListLen)

NoJoin == [called |-> FALSE, path |-> <<>>, result |-> <<>>, envBefore |-> Unset]

\* let s = DynamicLibrary::create_path(path), for the list the program holds
CreatePath ==
    /\ ~lastJoin.called
    /\ lastJoin' = [called |-> TRUE, path |-> lastJoin.path,
                    result |-> create_path(lastJoin.path), envBefore |-> env]
    /\ UNCHANGED <<env, lastPath, posixVars, winVars>>

InitPath ==
    /\ env = Unset
    /\ lastPath = NoPathOp
    /\ lastJoin = NoJoin

\* ------------------------------------------------- mod dl (Windows): open
ERROR_CALL_NOT_IMPLEMENTED == 120

\* SEM_FAILCRITICALERRORS
new_error_mode == 1

\* error modes: any combination of SEM_FAILCRITICALERRORS (1) and SEM_NOGPFAULTERRORBOX (2)
Modes == 0..3

WinState == [threadMode |-> threadMode, processMode |-> processMode, lastError |-> lastError]

\* SetThreadErrorMode(dwNewMode, lpOldMode): absent before Windows 7, where the
\* call fails with ERROR_CALL_NOT_IMPLEMENTED and leaves *lpOldMode alone.
SetThreadErrorMode(W, mode, old) ==
    IF threadModeSupported
    THEN [ret |-> 1, old |-> W.threadMode, W |-> [W EXCEPT !.threadMode = mode]]
    ELSE [ret |-> 0, old |-> old, W |-> [W EXCEPT !.lastError = ERROR_CALL_NOT_IMPLEMENTED]]

\* SetErrorMode(uMode): sets the process error mode, returns the previous one
SetErrorMode(W, mode) == [ret |-> W.processMode, W |-> [W EXCEPT !.processMode = mode]]

SetLastError(W, code) == [W EXCEPT !.lastError = code]

\* what LoadLibraryW reads through the pointer: the units before the first 0
WideName(filename) == CStrRead(Append(filename, NUL))

\* LoadLibraryW / GetModuleHandleExW: a non-null module handle, or failure with
\* the last-error code set (126, ERROR_MOD_NOT_FOUND)
LoadModule(W, name, succeed) ==
    IF succeed /\ Loadable(name)
    THEN [ok |-> TRUE, handle |-> 1, W |-> W]
    ELSE [ok |-> FALSE, handle |-> NULL, W |-> [W EXCEPT !.lastError = 126]]

\* win_error_string(GetLastError())
win_error_string(err) == [src |-> "win", code |-> err]

\* the first unsafe block of open: install the suppression, keep the previous mode
InstallErrorMode(W) ==
    LET t == SetThreadErrorMode(W, new_error_mode, 0)
    IN IF t.ret = 0
       THEN IF t.W.lastError = ERROR_CALL_NOT_IMPLEMENTED
            THEN LET p == SetErrorMode(t.W, new_error_mode)
                 IN [use_thread_mode |-> FALSE, prev_error_mode |-> p.ret, W |-> p.W]
            ELSE [use_thread_mode |-> TRUE, prev_error_mode |-> t.old, W |-> t.W]
       ELSE [use_thread_mode |-> TRUE, prev_error_mode |-> t.old, W |-> t.W]

\* A restore that forgets the process-wide fallback.
RestoreErrorMode_thread_only(W, use_thread_mode, prev_error_mode) ==
    SetThreadErrorMode(W, prev_error_mode, 0).W

\* the last unsafe block of open: put the previous mode back
RestoreErrorMode(W, use_thread_mode, prev_error_mode) ==
    IF use_thread_mode
    THEN SetThreadErrorMode(W, prev_error_mode, 0).W
    ELSE SetErrorMode(W, prev_error_mode).W

\* dl::open of the Windows backend
win_open(W, filename, succeed) ==
    LET m == InstallErrorMode(W)
        W1 == SetLastError(m.W, 0)
        l == LoadModule(W1, IF filename.some THEN Some(WideName(filename.path)) ELSE None, succeed)
        result == IF l.ok THEN [kind |-> "Ok", handle |-> l.handle, msg |-> win_error_string(0)]
                  ELSE [kind |-> "Err", handle |-> NULL, msg |-> win_error_string(l.W.lastError)]
    IN [result |-> result,
        during |-> [threadMode |-> l.W.threadMode, processMode |-> l.W.processMode],
        loaded |-> IF filename.some THEN Some(WideName(filename.path)) ELSE None,
        W |-> RestoreErrorMode(l.W, m.use_thread_mode, m.prev_error_mode)]

NoWinOp == [called |-> FALSE, filename |-> None, result |-> [kind |-> "none", handle |-> NULL,
            msg |-> win_error_string(0)],
            before |-> [threadMode |-> 0, processMode |-> 0],
            during |-> [threadMode |-> 0, processMode |-> 0], loaded |-> None]

\* DynamicLibrary::open(filename) on Windows
WinOpen(filename, succeed) ==
    LET r == win_open(WinState, filename, succeed)
    IN /\ threadMode' = r.W.threadMode
       /\ processMode' = r.W.processMode
       /\ lastError' = r.W.lastError
       /\ winLast' = [called |-> TRUE, filename |-> filename, result |-> r.result,
                      before |-> [threadMode |-> threadMode, processMode |-> processMode],
                      during |-> r.during, loaded |-> r.loaded]
       /\ UNCHANGED <<threadModeSupported, posixVars, pathVars>>

WinOpenStep == \E filename \in {None} \cup {Some(p) : p \in Paths}, succeed \in BOOLEAN :
                   WinOpen(filename, succeed)

InitWin ==
    /\ threadMode = 0
    /\ processMode = 0
    /\ threadModeSupported = TRUE
    /\ lastError = 0
    /\ winLast = NoWinOp

\* ------------------------------------------------------ specifications
\* The POSIX build, the library's loader operations alone.
Init == InitPosix /\ loaderClears \in BOOLEAN /\ InitPath /\ InitWin

Next == OpenStep \/ SymbolStep \/ DropStep

Spec == Init /\ [][Next]_vars

\* The POSIX build inside a process whose other code uses the loader too.
NextForeign == Next \/ ForeignLoaderError

SpecForeign == Init /\ [][NextForeign]_vars

\* The search-path helpers, from any initial value of the variable.
InitSearchPath ==
    /\ InitPosix
    /\ loaderClears = FALSE
    /\ env \in EnvValues
    /\ lastPath = NoPathOp
    /\ lastJoin = NoJoin
    /\ InitWin

NextPath == PrependStep \/ SearchPath

SpecPath == InitSearchPath /\ [][NextPath]_vars

\* create_path applied to a list drawn from Lists, under several values of the variable.
InitJoin ==
    /\ InitPosix
    /\ loaderClears = FALSE
    /\ env \in {Unset, [set |-> TRUE, value |-> <<>>], [set |-> TRUE, value |-> <<"a", ":", "b">>]}
    /\ lastPath = NoPathOp
    /\ \E path \in Lists : lastJoin = [NoJoin EXCEPT !.path = path]
    /\ InitWin

NextJoin == CreatePath

SpecJoin == InitJoin /\ [][NextJoin]_vars

\* The Windows build: open, from any error modes, on either kind of Windows.
InitWindows ==
    /\ InitPosix
    /\ loaderClears = FALSE
    /\ InitPath
    /\ threadModeSupported \in BOOLEAN
    /\ threadMode \in (IF threadModeSupported THEN Modes ELSE {0})
    /\ processMode \in Modes
    /\ lastError \in {0, 5}
    /\ winLast = NoWinOp

NextWin == WinOpenStep

SpecWin == InitWindows /\ [][NextWin]_vars

\* ------------------------------------------------------------- claims
\* what the last operation's own native call did (its first native call)
NativeCall == last.calls[1]

ReachedLoader == last.calls # <<>>

HandleObtained ==
    /\ ReachedLoader
    /\ NativeCall.fn = "dlopen"
    /\ NativeCall.ret # NULL
    /\ ~NativeCall.raised

\* C1: every open that returns, whatever error was pending in the loader when it
\* was called, returns Ok exactly when dlopen handed out a handle without error,
\* and then the handle is wrapped by a DynamicLibrary; otherwise it returns Err.
C1_OpenOkIffHandleObtained ==
    (last.op = "open" /\ last.kind # "Panic") =>
        /\ last.kind = "Ok" <=> HandleObtained
        /\ last.kind = "Err" <=> ~HandleObtained
        /\ HandleObtained => NativeCall.ret \in libs

\* C2: opening a path with an embedded NUL returns Err with a message; it does
\* not panic and does not reach dlopen.
C2_EmbeddedNulIsErr ==
    (last.op = "open" /\ last.arg.some /\ HasNul(last.arg.path)) =>
        /\ last.kind = "Err"
        /\ ~ReachedLoader

\* C3: a symbol call for a name that is not exported, or that holds a NUL,
\* returns Err with a message, closes nothing and leaves the handle live and
\* loaded; a symbol call for an exported name returns Ok with its address,
\* however many lookups failed on the handle before.
C3_FailedLookupKeepsHandleUsable ==
    last.op = "symbol" =>
        /\ Exported(last.arg.path) =>
              /\ last.kind = "Ok"
              /\ last.value = SymbolValue(last.arg.path)
        /\ ~Exported(last.arg.path) =>
              /\ last.kind = "Err"
              /\ last.value.src \in {"dlsym", "symbol"}
              /\ last.value.text = last.arg.path
        /\ last.handle \in libs
        /\ last.handle \in loaded
        /\ \A h \in DOMAIN closeCalls : Closes(last.calls, h) = 0
        /\ closeCalls[last.handle] = 0

C3_Witness ==
    /\ last.op = "symbol"
    /\ last.kind = "Ok"
    /\ last.value = 100
    /\ failedLookups[last.handle] = MaxFailed

\* C4: dlclose has been called once on the handle of every DynamicLibrary that
\* was dropped and never on any other handle; only handles handed out by a
\* successful dlopen are ever wrapped; open and symbol call no dlclose, and a
\* drop calls it once, on the handle the value wraps.
C4_CloseExactlyOncePerLibrary ==
    /\ \A h \in DOMAIN closeCalls :
          closeCalls[h] = (IF h \in everWrapped \ libs THEN 1 ELSE 0)
    /\ everWrapped \subseteq 1..nextHandle
    /\ libs \subseteq everWrapped
    /\ last.op \in {"open", "symbol"} =>
          \A h \in DOMAIN closeCalls : Closes(last.calls, h) = 0
    /\ last.op = "drop" =>
          \A h \in DOMAIN closeCalls :
              Closes(last.calls, h) = (IF h = last.handle THEN 1 ELSE 0)

C4_Witness ==
    /\ last.op = "open"
    /\ last.kind = "Err"
    /\ \E h \in everWrapped \ libs : closeCalls[h] = 1
    /\ libs # {}

\* C5: a drop panics, with the loader's message, exactly when dlclose failed,
\* and open and symbol never panic: their failures are Err results.
C5_OnlyCloseFaults ==
    /\ last.op = "drop" =>
          /\ last.kind = "Panic" <=> NativeCall.raised
          /\ last.kind = "Ok" <=> ~NativeCall.raised
          /\ last.kind = "Panic" => last.value.src = "dlclose"
    /\ last.op \in {"open", "symbol"} => last.kind \in {"Ok", "Err"}

\* the part of C5 about the destructor alone
DropFaultsIffCloseFailed ==
    last.op = "drop" =>
        /\ last.kind = "Panic" <=> NativeCall.raised
        /\ last.kind = "Ok" <=> ~NativeCall.raised

\* C6 as stated: after a prepend_search_path(newDir) that returns, search_path()
\* is newDir followed by the list search_path() returned before, for every newDir.
C6_PrependThenRead ==
    (lastPath.op = "prepend" /\ ~lastPath.panic) =>
        search_path(env) = <<lastPath.newDir>> \o lastPath.before

\* C6 amended: for every newDir that holds neither the separator nor a NUL,
\* prepend_search_path(newDir) returns and search_path() is then newDir followed
\* by the list search_path() returned before (unset, empty or any value).
C6_PrependThenReadNoSeparator ==
    (lastPath.op = "prepend" /\ ~HasNul(lastPath.newDir)
        /\ separator[1] \notin Range(lastPath.newDir)) =>
        /\ ~lastPath.panic
        /\ search_path(env) = <<lastPath.newDir>> \o lastPath.before
        /\ Len(search_path(env)) = Len(lastPath.before) + 1

C6_Witness ==
    /\ lastPath.op = "prepend"
    /\ lastPath.newDir = <<"a">>
    /\ lastPath.before = <<<<"b">>, <<"b">>>>
    /\ search_path(env) = <<<<"a">>, <<"b">>, <<"b">>>>

\* where the i-th path starts in the joined string: after the paths before it
\* and one separator for each
RECURSIVE Offset(_, _)
Offset(l, i) == IF i = 1 THEN 0 ELSE Offset(l, i - 1) + Len(l[i - 1]) + 1

\* C7: create_path returns the empty string for the empty list, p for [p], and
\* for n paths the paths in order, the i-th at its offset, one separator after
\* each path but the last and nothing else; the environment variable is as it
\* was before the call.
C7_CreatePathJoins ==
    lastJoin.called =>
        LET l == lastJoin.path
            out == lastJoin.result
            n == Len(l)
        IN /\ n = 0 => out = <<>>
           /\ n = 1 => out = l[1]
           /\ n >= 1 => Len(out) = Offset(l, n) + Len(l[n])
           /\ \A i \in 1..n :
                 /\ SubSeq(out, Offset(l, i) + 1, Offset(l, i) + Len(l[i])) = l[i]
                 /\ i < n => out[Offset(l, i) + Len(l[i]) + 1] = separator[1]
           /\ env = lastJoin.envBefore

C7_Witness ==
    /\ lastJoin.called
    /\ lastJoin.path = <<<<"a">>, <<"b">>, <<"a">>>>
    /\ lastJoin.result = <<"a", ":", "b", ":", "a">>
    /\ env.set

\* C8: when the Windows open returns, with a path or None, Ok or Err, with
\* SetThreadErrorMode or the SetErrorMode fallback, the thread and the process
\* error modes are what they were before the call, and SEM_FAILCRITICALERRORS
\* was in force in the scope it used while the module was loaded.
C8_ErrorModeRestored ==
    winLast.called =>
        /\ threadMode = winLast.before.threadMode
        /\ processMode = winLast.before.processMode
        /\ IF threadModeSupported
           THEN winLast.during.threadMode = new_error_mode
           ELSE winLast.during.processMode = new_error_mode

C8_Witness ==
    /\ winLast.called
    /\ ~threadModeSupported
    /\ winLast.result.kind = "Err"
    /\ winLast.before.processMode = 2
    /\ winLast.during.processMode = 1
    /\ processMode = 2

\* C9: an operation that runs check_for_errors_in makes its native call once,
\* then calls dlerror() once, and succeeds exactly when dlerror() returned null,
\* with the value the native call returned, null or not; otherwise it fails.
C9_DecidedByDlerrorAlone ==
    ReachedLoader =>
        /\ Len(last.calls) = 2
        /\ last.calls[1].fn = (CASE last.op = "open" -> "dlopen"
                                 [] last.op = "symbol" -> "dlsym"
                                 [] OTHER -> "dlclose")
        /\ last.calls[2].fn = "dlerror"
        /\ last.kind = "Ok" <=> last.calls[2].ret = NoError
        /\ last.kind = (IF last.op = "drop" THEN "Panic" ELSE "Err") <=> last.calls[2].ret # NoError
        /\ (last.kind = "Ok" /\ last.op = "open") => last.value.handle = last.calls[1].ret
        /\ (last.kind = "Ok" /\ last.op = "symbol") => last.value = last.calls[1].ret

C9_Witness ==
    /\ last.op = "symbol"
    /\ last.kind = "Err"
    /\ ReachedLoader
    /\ last.calls[1].ret # NULL
    /\ ~last.calls[1].raised

C9_WitnessNullOk ==
    /\ last.op = "symbol"
    /\ last.kind = "Ok"
    /\ last.value = NULL

\* C10: with the library's operations alone, from an empty error channel, no
\* loader error is pending after any operation, and an operation that reached
\* the loader fails only with the error its own native call raised.
C10_NoErrorLeftBehind ==
    /\ dlerr = NoError
    /\ (ReachedLoader /\ last.kind \in {"Err", "Panic"}) =>
          /\ last.errBefore = NoError
          /\ NativeCall.raised
          /\ last.calls[2].ret.src = NativeCall.fn

C10_Witness ==
    /\ last.op = "drop"
    /\ last.kind = "Panic"
    /\ ~loaderClears
    /\ dlerr = NoError
    /\ libs # {}

====
